---- MODULE Spec2Model ----
(***************************************************************************)
(* Model of registry/app/api/controller/metadata/artifact_mapper.go: the   *)
(* response mappers of the package registry.  Every mapper is a pure       *)
(* function of its arguments, so the state machine draws the arguments of  *)
(* one call in Init and one action per mapper applies it.                  *)
(*                                                                         *)
(* Go strings that the code cuts or rewrites (paths, artifact names,       *)
(* versions, digests) are sequences of one-character strings; strings the  *)
(* code only compares or copies (package types, record names, URLs) are    *)
(* TLA+ strings.  Sizes and timestamps are copied through helpers that do  *)
(* not influence any other field and are left out of the records.          *)
(***************************************************************************)
EXTENDS Integers, Sequences, FiniteSets

VARIABLES pc, fn, tags, artifacts, metadata, registryURL, artifactName,
          version, packageType, packageTypeStr, file, result, logged,
          urlRequests

vars == <<pc, fn, tags, artifacts, metadata, registryURL, artifactName,
          version, packageType, packageTypeStr, file, result, logged,
          urlRequests>>

---------------------------------------------------------------------------
(* Bounds of the enumerated inputs *)

MaxTags == 3
MaxArtifacts == 3
MaxFiles == 2
MaxNameLen == 2
MaxVerLen == 1
MaxPathLen == 7
MaxDigestLen == 1

SeqsOfLen(S, lo, hi) == UNION {[1..k -> S] : k \in lo..hi}

---------------------------------------------------------------------------
(* The closed enum artifactapi.PackageType and the strings a record may hold *)

PackageTypeDOCKER == "DOCKER"
PackageTypeGENERIC == "GENERIC"
PackageTypeHELM == "HELM"
PackageTypeMAVEN == "MAVEN"

PackageTypes ==
  {PackageTypeDOCKER, PackageTypeGENERIC, PackageTypeHELM, PackageTypeMAVEN}

\* stored package-type strings: the four values, the empty string, a case
\* variant and an unknown ecosystem
PackageTypeStrs == PackageTypes \cup {"", "docker", "NPM"}

\* package types of stored list records
StoredPackageTypes == PackageTypes \cup {"", "docker"}

\* package-type arguments of the file mapper
FilePackageTypes == PackageTypes \cup {"NPM"}

---------------------------------------------------------------------------
(* Go's strings package, for a non-empty old string *)

HasPrefixAt(s, sub, i) ==
  /\ i + Len(sub) - 1 <= Len(s)
  /\ SubSeq(s, i, i + Len(sub) - 1) = sub

\* strings.Index, 1-based; 0 when sub does not occur
RECURSIVE IndexFrom(_, _, _)
IndexFrom(s, sub, i) ==
  IF i + Len(sub) - 1 > Len(s) THEN 0
  ELSE IF HasPrefixAt(s, sub, i) THEN i
  ELSE IndexFrom(s, sub, i + 1)

Index(s, sub) == IndexFrom(s, sub, 1)

\* strings.Replace(s, old, new, n): the first n non-overlapping occurrences
\* of old replaced by new, all of them when n < 0
RECURSIVE Replace(_, _, _, _)
Replace(s, old, new, n) ==
  IF old = new \/ n = 0 THEN s
  ELSE LET j == Index(s, old) IN
       IF j = 0 THEN s
       ELSE SubSeq(s, 1, j - 1) \o new
              \o Replace(SubSeq(s, j + Len(old), Len(s)), old, new, n - 1)

ReplaceAll(s, old, new) == Replace(s, old, new, -1)

---------------------------------------------------------------------------
(* Collaborators outside this file *)

\* url.Provider.RegistryURL(ctx, rootIdentifier, segments...): the URL is a
\* function of the path segments it was asked for
RegistryURL(segments) == [registry |-> segments]

\* GetPullCommand(image, tag, packageType, registryURL): one display string
\* formatted from its four arguments
GetPullCommand(image, tag, pt, url) ==
  [image |-> image, tag |-> tag, packageType |-> pt, registryURL |-> url]

\* GetGenericArtifactFileDownloadCommand and
\* GetMavenArtifactFileDownloadCommand: two different command shapes over
\* the same four arguments
GetGenericArtifactFileDownloadCommand(url, name, ver, filename) ==
  [shape |-> "generic", registryURL |-> url, artifact |-> name,
   version |-> ver, filename |-> filename]

GetMavenArtifactFileDownloadCommand(url, name, ver, filename) ==
  [shape |-> "maven", registryURL |-> url, artifact |-> name,
   version |-> ver, filename |-> filename]

---------------------------------------------------------------------------
(* toPackageType *)

ErrInvalidPackageType == "invalid package type"

toPackageType_DefaultDocker(packageTypeStr_) ==
  IF packageTypeStr_ \in {PackageTypeGENERIC, PackageTypeHELM, PackageTypeMAVEN}
  THEN [val |-> packageTypeStr_, err |-> "nil"]
  ELSE [val |-> PackageTypeDOCKER, err |-> "nil"]

toPackageType_NoMaven(packageTypeStr_) ==
  CASE packageTypeStr_ = PackageTypeDOCKER -> [val |-> PackageTypeDOCKER, err |-> "nil"]
    [] packageTypeStr_ = PackageTypeGENERIC -> [val |-> PackageTypeGENERIC, err |-> "nil"]
    [] packageTypeStr_ = PackageTypeHELM -> [val |-> PackageTypeHELM, err |-> "nil"]
    [] OTHER -> [val |-> "", err |-> ErrInvalidPackageType]

toPackageType(packageTypeStr_) ==
  CASE packageTypeStr_ = PackageTypeDOCKER -> [val |-> PackageTypeDOCKER, err |-> "nil"]
    [] packageTypeStr_ = PackageTypeGENERIC -> [val |-> PackageTypeGENERIC, err |-> "nil"]
    [] packageTypeStr_ = PackageTypeHELM -> [val |-> PackageTypeHELM, err |-> "nil"]
    [] packageTypeStr_ = PackageTypeMAVEN -> [val |-> PackageTypeMAVEN, err |-> "nil"]
    [] OTHER -> [val |-> "", err |-> ErrInvalidPackageType]

---------------------------------------------------------------------------
(* GetTagMetadata and GetNonOCIArtifactMetadata: the loop carries the output
   list and the log of the package types it could not convert *)

RECURSIVE TagLoop(_, _, _, _, _, _)
TagLoop(tags_, i, image, url, list, log) ==
  IF i > Len(tags_) THEN [list |-> list, log |-> log]
  ELSE LET tag == tags_[i]
           command == GetPullCommand(image, tag.Name, tag.PackageType, url)
           conv == toPackageType(tag.PackageType)
       IN IF conv.err # "nil"
          THEN TagLoop(tags_, i + 1, image, url, list,
                       Append(log, tag.PackageType))
          ELSE TagLoop(tags_, i + 1, image, url,
                       Append(list, [PackageType |-> conv.val,
                                     Name |-> tag.Name,
                                     DigestCount |-> tag.DigestCount,
                                     PullCommand |-> command,
                                     DownloadsCount |-> tag.DownloadCount]),
                       log)

GetTagMetadata(tags_, image, url) == TagLoop(tags_, 1, image, url, <<>>, <<>>)

RECURSIVE NonOCILoop(_, _, _, _, _, _)
NonOCILoop(tags_, i, image, url, list, log) ==
  IF i > Len(tags_) THEN [list |-> list, log |-> log]
  ELSE LET tag == tags_[i]
           command == GetPullCommand(image, tag.Name, tag.PackageType, url)
           conv == toPackageType(tag.PackageType)
       IN IF conv.err # "nil"
          THEN NonOCILoop(tags_, i + 1, image, url, list,
                          Append(log, tag.PackageType))
          ELSE NonOCILoop(tags_, i + 1, image, url,
                          Append(list, [PackageType |-> conv.val,
                                        FileCount |-> tag.FileCount,
                                        Name |-> tag.Name,
                                        PullCommand |-> command,
                                        DownloadsCount |-> tag.DownloadCount]),
                          log)

GetNonOCIArtifactMetadata(tags_, image, url) ==
  NonOCILoop(tags_, 1, image, url, <<>>, <<>>)

---------------------------------------------------------------------------
(* GetArtifactMetadata and GetRegistryArtifactMetadata *)

mapToArtifactMetadata(artifact, url) ==
  [RegistryIdentifier |-> artifact.RepoName,
   Name |-> artifact.Name,
   Version |-> artifact.Version,
   PackageType |-> artifact.PackageType,
   DownloadsCount |-> artifact.DownloadCount,
   PullCommand |-> GetPullCommand(artifact.Name, artifact.Version,
                                  artifact.PackageType, url)]

mapToRegistryArtifactMetadata(artifact) ==
  [RegistryIdentifier |-> artifact.RepoName,
   Name |-> artifact.Name,
   PackageType |-> artifact.PackageType,
   DownloadsCount |-> artifact.DownloadCount]

\* one iteration of GetArtifactMetadata's loop: the requests it sends to the
\* URL provider, in order, and the item it appends
ArtifactIteration_PlainOnly(artifact, root) ==
  LET plain == <<root, artifact.RepoName>>
  IN [requests |-> <<plain>>,
      item |-> mapToArtifactMetadata(artifact, RegistryURL(plain))]

ArtifactIteration(artifact, root) ==
  LET plain == <<root, artifact.RepoName>>
      generic == <<root, "generic", artifact.RepoName>>
  IN IF artifact.PackageType = PackageTypeGENERIC
     THEN [requests |-> <<plain, generic>>,
           item |-> mapToArtifactMetadata(artifact, RegistryURL(generic))]
     ELSE [requests |-> <<plain>>,
           item |-> mapToArtifactMetadata(artifact, RegistryURL(plain))]

RECURSIVE ArtifactLoop(_, _, _, _, _)
ArtifactLoop(artifacts_, i, root, list, requests) ==
  IF i > Len(artifacts_) THEN [list |-> list, requests |-> requests]
  ELSE LET it == ArtifactIteration(artifacts_[i], root)
       IN ArtifactLoop(artifacts_, i + 1, root, Append(list, it.item),
                       Append(requests, it.requests))

\* requests[i] are the URL-provider calls made for artifacts[i]
GetArtifactMetadata(artifacts_, root) ==
  ArtifactLoop(artifacts_, 1, root, <<>>, <<>>)

GetRegistryArtifactMetadata(artifacts_) ==
  [i \in 1..Len(artifacts_) |-> mapToRegistryArtifactMetadata(artifacts_[i])]

---------------------------------------------------------------------------
(* getCheckSums and GetArtifactFilesMetadata *)

LabelSHA512 == <<"S", "H", "A", "-", "5", "1", "2", ":", " ">>
LabelSHA256 == <<"S", "H", "A", "-", "2", "5", "6", ":", " ">>
LabelSHA1 == <<"S", "H", "A", "-", "1", ":", " ">>
LabelMD5 == <<"M", "D", "5", ":", " ">>

getCheckSums_SkipEmpty(file_) ==
  SelectSeq(<<LabelSHA512 \o file_.Sha512, LabelSHA256 \o file_.Sha256,
              LabelSHA1 \o file_.Sha1, LabelMD5 \o file_.MD5>>,
            LAMBDA c : c[Len(c)] # " ")

getCheckSums(file_) ==
  <<LabelSHA512 \o file_.Sha512,
    LabelSHA256 \o file_.Sha256,
    LabelSHA1 \o file_.Sha1,
    LabelMD5 \o file_.MD5>>

\* "/" + artifactName + "/" + version + "/"
FilePathPrefix(name, ver) == <<"/">> \o name \o <<"/">> \o ver \o <<"/">>

StripPrefix_All(path, prefix) == Replace(path, prefix, <<>>, -1)

\* strings.Replace(file.Path, filePathPrefix, "", 1)
StripPrefix(path, prefix) == Replace(path, prefix, <<>>, 1)

MavenName_DotsOnly(name) == ReplaceAll(name, <<".">>, <<"/">>)

MavenName_ColonToDot(name) ==
  ReplaceAll(ReplaceAll(name, <<".">>, <<"/">>), <<":">>, <<".">>)

\* the two ReplaceAll calls of the MAVEN branch
MavenName(name) ==
  ReplaceAll(ReplaceAll(name, <<".">>, <<"/">>), <<":">>, <<"/">>)

\* one iteration of the file loop, started with the current value of the
\* local artifactName: the entry it appends and the value artifactName has
\* afterwards
FileIteration_ElseMaven(file_, url, name, ver, pt) ==
  LET filename == StripPrefix(file_.Path, FilePathPrefix(name, ver))
  IN IF pt = PackageTypeGENERIC
     THEN [artifactName |-> name,
           detail |-> [Checksums |-> getCheckSums(file_),
                       Name |-> filename,
                       DownloadCommand |->
                         GetGenericArtifactFileDownloadCommand(url, name, ver, filename)]]
     ELSE LET name2 == MavenName(name)
              filename2 == StripPrefix(file_.Path, FilePathPrefix(name2, ver))
          IN [artifactName |-> name2,
              detail |-> [Checksums |-> getCheckSums(file_),
                          Name |-> filename2,
                          DownloadCommand |->
                            GetMavenArtifactFileDownloadCommand(url, name2, ver, filename2)]]

FileIteration(file_, url, name, ver, pt) ==
  LET filename == StripPrefix(file_.Path, FilePathPrefix(name, ver))
  IN IF pt = PackageTypeGENERIC
     THEN [artifactName |-> name,
           detail |-> [Checksums |-> getCheckSums(file_),
                       Name |-> filename,
                       DownloadCommand |->
                         GetGenericArtifactFileDownloadCommand(url, name, ver, filename)]]
     ELSE IF pt = PackageTypeMAVEN
     THEN LET name2 == MavenName(name)
              filename2 == StripPrefix(file_.Path, FilePathPrefix(name2, ver))
          IN [artifactName |-> name2,
              detail |-> [Checksums |-> getCheckSums(file_),
                          Name |-> filename2,
                          DownloadCommand |->
                            GetMavenArtifactFileDownloadCommand(url, name2, ver, filename2)]]
     ELSE [artifactName |-> name,
           detail |-> [Checksums |-> getCheckSums(file_),
                       Name |-> filename,
                       DownloadCommand |-> <<>>]]

RECURSIVE FileLoop(_, _, _, _, _, _, _)
FileLoop(metadata_, i, url, name, ver, pt, files) ==
  IF i > Len(metadata_) THEN files
  ELSE LET it == FileIteration(metadata_[i], url, name, ver, pt)
       IN FileLoop(metadata_, i + 1, url, it.artifactName, ver, pt,
                   Append(files, it.detail))

GetArtifactFilesMetadata(metadata_, url, name, ver, pt) ==
  FileLoop(metadata_, 1, url, name, ver, pt, <<>>)

---------------------------------------------------------------------------
(* Inputs *)

RootIdentifier == "root"
Image == "img"
BaseURL == "https://registry"

RecordNames == {"v1", "v2"}
RepoNames == {"repo1", "repo2"}

TagRecords ==
  [Name : RecordNames, PackageType : StoredPackageTypes,
   DigestCount : {1}, DownloadCount : {0}]

NonOCIRecords ==
  [Name : RecordNames, PackageType : StoredPackageTypes,
   FileCount : {1}, DownloadCount : {0}]

ArtifactRecords ==
  [RepoName : RepoNames, Name : {Image}, Version : {"v1"},
   PackageType : StoredPackageTypes, DownloadCount : {0}]

NameChars == {"a", ".", ":"}
VersionChars == {"a"}
PathChars == {"/", "a"}
DigestChars == {"0", "f"}

Names == SeqsOfLen(NameChars, 1, MaxNameLen)
Versions == SeqsOfLen(VersionChars, 1, MaxVerLen)
Paths == SeqsOfLen(PathChars, 0, MaxPathLen)
Digests == SeqsOfLen(DigestChars, 0, MaxDigestLen)

FileRecord(path, sha512, sha256, sha1, md5) ==
  [Path |-> path, Sha512 |-> sha512, Sha256 |-> sha256, Sha1 |-> sha1,
   MD5 |-> md5]

\* stored files of the multi-file listings: paths under the plain and under
\* the directory-style prefixes of short names, a path holding the prefix
\* twice, one holding it in the middle and one without it
StoredFiles ==
  { FileRecord(<<"/", "a", "/", "a", "/", "a">>, <<"0">>, <<"f">>, <<>>, <<"0">>),
    FileRecord(<<"/", "/", "/", "a", "/", "a">>, <<>>, <<>>, <<>>, <<>>),
    FileRecord(<<"/", ".", "/", "a", "/", "a">>, <<"f">>, <<>>, <<"0">>, <<>>),
    FileRecord(<<"/", "a", "/", "/", "a", "/", "a">>, <<"0">>, <<"0">>, <<"0">>, <<"0">>),
    FileRecord(<<"/", "a", "/", "a", "/", "/", "a", "/", "a", "/", "a">>,
               <<>>, <<"f">>, <<>>, <<"f">>),
    FileRecord(<<"a", "/", "a", "/", "a", "/", "a">>, <<"f">>, <<"f">>, <<"f">>, <<"f">>),
    FileRecord(<<"a">>, <<>>, <<>>, <<>>, <<"0">>) }

NoFile == FileRecord(<<>>, <<>>, <<>>, <<>>, <<>>)

---------------------------------------------------------------------------
(* The state machine: Init draws the arguments of one call, the action of
   the called mapper applies it *)

InitToPackageType ==
  /\ fn = "toPackageType"
  /\ packageTypeStr \in PackageTypeStrs
  /\ tags = <<>> /\ artifacts = <<>> /\ metadata = <<>>
  /\ registryURL = BaseURL /\ artifactName = <<>> /\ version = <<>>
  /\ packageType = "" /\ file = NoFile

InitGetTagMetadata ==
  /\ fn = "GetTagMetadata"
  /\ tags \in SeqsOfLen(TagRecords, 0, MaxTags)
  /\ artifacts = <<>> /\ metadata = <<>>
  /\ registryURL = BaseURL /\ artifactName = <<>> /\ version = <<>>
  /\ packageType = "" /\ packageTypeStr = "" /\ file = NoFile

InitGetNonOCIArtifactMetadata ==
  /\ fn = "GetNonOCIArtifactMetadata"
  /\ tags \in SeqsOfLen(NonOCIRecords, 0, MaxTags)
  /\ artifacts = <<>> /\ metadata = <<>>
  /\ registryURL = BaseURL /\ artifactName = <<>> /\ version = <<>>
  /\ packageType = "" /\ packageTypeStr = "" /\ file = NoFile

InitArtifacts ==
  /\ fn \in {"GetArtifactMetadata", "GetRegistryArtifactMetadata"}
  /\ artifacts \in SeqsOfLen(ArtifactRecords, 0, MaxArtifacts)
  /\ tags = <<>> /\ metadata = <<>>
  /\ registryURL = BaseURL /\ artifactName = <<>> /\ version = <<>>
  /\ packageType = "" /\ packageTypeStr = "" /\ file = NoFile

InitGetCheckSums ==
  /\ fn = "getCheckSums"
  /\ \E s512 \in Digests, s256 \in Digests, s1 \in Digests, md5 \in Digests :
       file = FileRecord(<<"a">>, s512, s256, s1, md5)
  /\ tags = <<>> /\ artifacts = <<>> /\ metadata = <<>>
  /\ registryURL = BaseURL /\ artifactName = <<>> /\ version = <<>>
  /\ packageType = "" /\ packageTypeStr = ""

\* a listing of one file with any stored path
InitOneFile ==
  /\ fn = "GetArtifactFilesMetadata"
  /\ \E path \in Paths :
       metadata = <<FileRecord(path, <<"0">>, <<>>, <<"f">>, <<>>)>>
  /\ artifactName \in Names
  /\ version \in Versions
  /\ packageType \in FilePackageTypes
  /\ tags = <<>> /\ artifacts = <<>>
  /\ registryURL = BaseURL /\ packageTypeStr = "" /\ file = NoFile

\* a listing of several stored files
InitFiles ==
  /\ fn = "GetArtifactFilesMetadata"
  /\ metadata \in SeqsOfLen(StoredFiles, 0, MaxFiles)
  /\ artifactName \in Names
  /\ version \in Versions
  /\ packageType \in FilePackageTypes
  /\ tags = <<>> /\ artifacts = <<>>
  /\ registryURL = BaseURL /\ packageTypeStr = "" /\ file = NoFile

Init ==
  /\ pc = "call"
  /\ result = <<>>
  /\ logged = <<>>
  /\ urlRequests = <<>>
  /\ \/ InitToPackageType
     \/ InitGetTagMetadata
     \/ InitGetNonOCIArtifactMetadata
     \/ InitArtifacts
     \/ InitGetCheckSums
     \/ InitOneFile
     \/ InitFiles

inputs == <<fn, tags, artifacts, metadata, registryURL, artifactName, version,
            packageType, packageTypeStr, file>>

CallToPackageType ==
  /\ pc = "call" /\ fn = "toPackageType"
  /\ result' = toPackageType(packageTypeStr)
  /\ pc' = "done"
  /\ UNCHANGED <<inputs, logged, urlRequests>>

CallGetTagMetadata ==
  /\ pc = "call" /\ fn = "GetTagMetadata"
  /\ LET r == GetTagMetadata(tags, Image, registryURL)
     IN /\ result' = r.list
        /\ logged' = r.log
  /\ pc' = "done"
  /\ UNCHANGED <<inputs, urlRequests>>

CallGetNonOCIArtifactMetadata ==
  /\ pc = "call" /\ fn = "GetNonOCIArtifactMetadata"
  /\ LET r == GetNonOCIArtifactMetadata(tags, Image, registryURL)
     IN /\ result' = r.list
        /\ logged' = r.log
  /\ pc' = "done"
  /\ UNCHANGED <<inputs, urlRequests>>

CallGetArtifactMetadata ==
  /\ pc = "call" /\ fn = "GetArtifactMetadata"
  /\ LET r == GetArtifactMetadata(artifacts, RootIdentifier)
     IN /\ result' = r.list
        /\ urlRequests' = r.requests
  /\ pc' = "done"
  /\ UNCHANGED <<inputs, logged>>

CallGetRegistryArtifactMetadata ==
  /\ pc = "call" /\ fn = "GetRegistryArtifactMetadata"
  /\ result' = GetRegistryArtifactMetadata(artifacts)
  /\ pc' = "done"
  /\ UNCHANGED <<inputs, logged, urlRequests>>

CallGetCheckSums ==
  /\ pc = "call" /\ fn = "getCheckSums"
  /\ result' = getCheckSums(file)
  /\ pc' = "done"
  /\ UNCHANGED <<inputs, logged, urlRequests>>

CallGetArtifactFilesMetadata ==
  /\ pc = "call" /\ fn = "GetArtifactFilesMetadata"
  /\ result' = GetArtifactFilesMetadata(metadata, registryURL, artifactName,
                                        version, packageType)
  /\ pc' = "done"
  /\ UNCHANGED <<inputs, logged, urlRequests>>

Next ==
  \/ CallToPackageType
  \/ CallGetTagMetadata
  \/ CallGetNonOCIArtifactMetadata
  \/ CallGetArtifactMetadata
  \/ CallGetRegistryArtifactMetadata
  \/ CallGetCheckSums
  \/ CallGetArtifactFilesMetadata

Spec == Init /\ [][Next]_vars

Done(f) == pc = "done" /\ fn = f

---------------------------------------------------------------------------
(* Vocabulary of the properties, written without the mapper's operators *)

Range(q) == {q[k] : k \in 1..Len(q)}

IsPackageType(t) == t \in {"DOCKER", "GENERIC", "HELM", "MAVEN"}

\* the positions at which sub occurs in s
Occurrences(s, sub) ==
  {k \in 1..(Len(s) - Len(sub) + 1) : SubSeq(s, k, k + Len(sub) - 1) = sub}

Least(S) == CHOOSE k \in S : \A m \in S : k <= m

\* s with its first occurrence of sub cut out; s itself when there is none
WithoutFirst(s, sub) ==
  IF Occurrences(s, sub) = {} THEN s
  ELSE LET k == Least(Occurrences(s, sub))
       IN [m \in 1..(Len(s) - Len(sub)) |->
             IF m < k THEN s[m] ELSE s[m + Len(sub)]]

Slashed(name) ==
  [k \in 1..Len(name) |-> IF name[k] \in {".", ":"} THEN "/" ELSE name[k]]

PrefixOf(name, ver) == <<"/">> \o name \o <<"/">> \o ver \o <<"/">>

\* the name the file mapper is meant to derive paths from
EffectiveName == IF packageType = "MAVEN" THEN Slashed(artifactName) ELSE artifactName

FilesDone == Done("GetArtifactFilesMetadata")

---------------------------------------------------------------------------
(* C1: GetTagMetadata and GetNonOCIArtifactMetadata return exactly the
   records whose package type is DOCKER, GENERIC, HELM or MAVEN, in input
   order and with that package type; every other record is dropped (and
   logged) without ending the listing or removing a valid sibling. *)
C1_ListingKeepsExactlyValidRecords ==
  (pc = "done" /\ fn \in {"GetTagMetadata", "GetNonOCIArtifactMetadata"}) =>
    LET kept == SelectSeq(tags, LAMBDA t : IsPackageType(t.PackageType))
        dropped == SelectSeq(tags, LAMBDA t : ~IsPackageType(t.PackageType))
    IN /\ Len(result) = Len(kept)
       /\ \A i \in 1..Len(kept) :
            /\ result[i].Name = kept[i].Name
            /\ result[i].PackageType = kept[i].PackageType
       /\ Len(logged) = Len(dropped)
       /\ \A i \in 1..Len(dropped) : logged[i] = dropped[i].PackageType

\* an invalid record between two valid ones is dropped, both siblings kept
C1_Witness ==
  /\ pc = "done" /\ fn \in {"GetTagMetadata", "GetNonOCIArtifactMetadata"}
  /\ Len(tags) = 3
  /\ IsPackageType(tags[1].PackageType)
  /\ ~IsPackageType(tags[2].PackageType)
  /\ IsPackageType(tags[3].PackageType)
  /\ tags[1].Name # tags[3].Name
  /\ Len(result) = 2
  /\ result[1].Name = tags[1].Name /\ result[2].Name = tags[3].Name

(* C2: the prefix "/" + artifactName + "/" + version + "/" is stripped only
   as a leading match: a path in which the prefix occurs, but not at its
   start, is reported unchanged as the filename. *)
C2_NonLeadingPrefixIsKept ==
  FilesDone =>
    \A i \in 1..Len(metadata) :
      LET path == metadata[i].Path
          occ == Occurrences(path, PrefixOf(EffectiveName, version))
      IN (occ # {} /\ 1 \notin occ) => result[i].Name = path

(* C3: for a non-Maven package type the filename is the stored path with
   its first occurrence of "/" + artifactName + "/" + version + "/" removed
   and any later occurrence kept; a path without the prefix is reported in
   full. *)
C3_FirstOccurrenceRemoved ==
  (FilesDone /\ packageType # "MAVEN") =>
    /\ Len(result) = Len(metadata)
    /\ \A i \in 1..Len(metadata) :
         result[i].Name =
           WithoutFirst(metadata[i].Path, PrefixOf(artifactName, version))

\* one listing with a path that holds the prefix twice (the second is kept)
\* and a path without the prefix (reported in full)
C3_Witness ==
  /\ FilesDone /\ packageType # "MAVEN"
  /\ \E i \in 1..Len(metadata) :
       /\ Cardinality(Occurrences(metadata[i].Path,
                                  PrefixOf(artifactName, version))) = 2
       /\ Occurrences(result[i].Name, PrefixOf(artifactName, version)) # {}
       /\ Len(result[i].Name) =
            Len(metadata[i].Path) - Len(PrefixOf(artifactName, version))
  /\ \E i \in 1..Len(metadata) :
       /\ Occurrences(metadata[i].Path, PrefixOf(artifactName, version)) = {}
       /\ metadata[i].Path # <<>>
       /\ result[i].Name = metadata[i].Path

(* C4: for MAVEN only, every '.' and ':' of the artifact name becomes '/'
   and the prefix, the filename and the command's artifact name come from
   the rewritten name; every other package type uses the name as given. *)
C4_MavenNameRewritten ==
  FilesDone =>
    \A i \in 1..Len(metadata) :
      /\ result[i].Name =
           WithoutFirst(metadata[i].Path, PrefixOf(EffectiveName, version))
      /\ packageType \in {"MAVEN", "GENERIC"} =>
           result[i].DownloadCommand.artifact = EffectiveName

\* a Maven name with a '.' or ':' whose directory-style prefix is stripped
C4_Witness ==
  /\ FilesDone /\ packageType = "MAVEN"
  /\ Range(artifactName) \cap {".", ":"} # {}
  /\ "a" \in Range(artifactName)
  /\ \E i \in 1..Len(metadata) :
       /\ 1 \in Occurrences(metadata[i].Path,
                            PrefixOf(Slashed(artifactName), version))
       /\ result[i].Name # metadata[i].Path
       /\ result[i].Name # <<>>

(* C5: getCheckSums returns exactly four strings, "SHA-512: ", "SHA-256: ",
   "SHA-1: " and "MD5: " in that order, each followed by its digest; an
   empty digest leaves the bare label and is never omitted. *)
C5_FourChecksumsInOrder ==
  Done("getCheckSums") =>
    LET labels == << <<"S", "H", "A", "-", "5", "1", "2", ":", " ">>,
                     <<"S", "H", "A", "-", "2", "5", "6", ":", " ">>,
                     <<"S", "H", "A", "-", "1", ":", " ">>,
                     <<"M", "D", "5", ":", " ">> >>
        digests == <<file.Sha512, file.Sha256, file.Sha1, file.MD5>>
    IN /\ Len(result) = 4
       /\ \A k \in 1..4 :
            /\ Len(result[k]) = Len(labels[k]) + Len(digests[k])
            /\ SubSeq(result[k], 1, Len(labels[k])) = labels[k]
            /\ SubSeq(result[k], Len(labels[k]) + 1, Len(result[k])) = digests[k]

\* all four digests empty, and still four entries
C5_Witness ==
  /\ Done("getCheckSums")
  /\ file.Sha512 = <<>> /\ file.Sha256 = <<>>
  /\ file.Sha1 = <<>> /\ file.MD5 = <<>>
  /\ Len(result) = 4

(* C6: GetArtifactMetadata asks the URL provider for the "generic"-segment
   URL of every GENERIC artifact and builds its pull command from that URL;
   for every other artifact it asks only for the plain
   (rootIdentifier, repository) URL and uses it. *)
C6_GenericSegmentOnlyForGeneric ==
  Done("GetArtifactMetadata") =>
    /\ Len(urlRequests) = Len(artifacts)
    /\ Len(result) = Len(artifacts)
    /\ \A i \in 1..Len(artifacts) :
         LET plain == <<"root", artifacts[i].RepoName>>
             generic == <<"root", "generic", artifacts[i].RepoName>>
         IN IF artifacts[i].PackageType = "GENERIC"
            THEN /\ generic \in Range(urlRequests[i])
                 /\ result[i].PullCommand.registryURL = [registry |-> generic]
            ELSE /\ Range(urlRequests[i]) = {plain}
                 /\ result[i].PullCommand.registryURL = [registry |-> plain]

\* a listing with a GENERIC artifact and an artifact of another type
C6_Witness ==
  /\ Done("GetArtifactMetadata")
  /\ \E i, j \in 1..Len(artifacts) :
       /\ artifacts[i].PackageType = "GENERIC"
       /\ artifacts[j].PackageType = "HELM"
       /\ artifacts[i].RepoName = artifacts[j].RepoName
       /\ result[i].PullCommand.registryURL # result[j].PullCommand.registryURL

(* C7: toPackageType returns t and no error for the string of each of the
   four package types t, and the error "invalid package type" with the
   empty package type for every other string. *)
C7_ToPackageTypeRoundTrips ==
  Done("toPackageType") =>
    IF IsPackageType(packageTypeStr)
    THEN result.val = packageTypeStr /\ result.err = "nil"
    ELSE result.val = "" /\ result.err = "invalid package type"

\* a case variant of a valid type is rejected
C7_Witness ==
  /\ Done("toPackageType")
  /\ packageTypeStr = "docker"
  /\ result.err # "nil"

(* C8: GetArtifactMetadata and GetRegistryArtifactMetadata drop an artifact
   whose stored package type is not DOCKER, GENERIC, HELM or MAVEN, so every
   item of a returned list carries one of the four package types. *)
C8_ArtifactListsCarryValidTypes ==
  (pc = "done" /\ fn \in {"GetArtifactMetadata", "GetRegistryArtifactMetadata"}) =>
    \A i \in 1..Len(result) : IsPackageType(result[i].PackageType)

(* C9: the download command depends on the package type alone: GENERIC
   files get the generic command over the original name and the stripped
   filename, MAVEN files the Maven command over the rewritten name and the
   filename stripped with the rewritten prefix, every other type an empty
   command; each file still appears with its filename and checksums. *)
C9_DownloadCommandByPackageType ==
  FilesDone =>
    /\ Len(result) = Len(metadata)
    /\ \A i \in 1..Len(metadata) :
         LET filename == WithoutFirst(metadata[i].Path,
                                      PrefixOf(EffectiveName, version))
         IN /\ result[i].Name = filename
            /\ Len(result[i].Checksums) = 4
            /\ result[i].DownloadCommand =
                 CASE packageType = "GENERIC" ->
                        [shape |-> "generic", registryURL |-> registryURL,
                         artifact |-> artifactName, version |-> version,
                         filename |-> filename]
                   [] packageType = "MAVEN" ->
                        [shape |-> "maven", registryURL |-> registryURL,
                         artifact |-> Slashed(artifactName),
                         version |-> version, filename |-> filename]
                   [] OTHER -> <<>>

\* a file of a type without a download command is listed all the same
C9_Witness ==
  /\ FilesDone
  /\ packageType \in {"DOCKER", "HELM", "NPM"}
  /\ Len(metadata) >= 1
  /\ Len(result) = Len(metadata)
  /\ \A i \in 1..Len(result) :
       /\ result[i].DownloadCommand = <<>>
       /\ result[i].Name # <<>>
       /\ Len(result[i].Checksums) = 4

(* C10: the file loop is position-independent: the output has one entry per
   input file, in input order, and the i-th entry is the entry the mapper
   returns for the one-element list of the i-th file and the original
   arguments, although the MAVEN branch reassigns artifactName. *)
C10_FileLoopPositionIndependent ==
  FilesDone =>
    /\ Len(result) = Len(metadata)
    /\ \A i \in 1..Len(metadata) :
         <<result[i]>> =
           GetArtifactFilesMetadata(<<metadata[i]>>, registryURL, artifactName,
                                    version, packageType)

\* a second Maven file, mapped after the name was already rewritten once,
\* whose rewritten prefix is stripped
C10_Witness ==
  /\ FilesDone /\ packageType = "MAVEN"
  /\ Len(metadata) >= 2
  /\ Range(artifactName) \cap {".", ":"} # {}
  /\ result[2].Name # metadata[2].Path
  /\ result[2].DownloadCommand.artifact # artifactName

====
